---- MODULE Spec2Model ----
(***************************************************************************)
(* A model of the fraud-risk pipeline: the ingest service (validation,     *)
(* ParquetWriter buffer and flush, event-log append), the featurizer       *)
(* (consumer loop, per-user EventWindow, compute_features, snapshot        *)
(* write), the feature store, and the inference service (predict: feature  *)
(* vector, decision thresholds, reason codes).                             *)
(*                                                                         *)
(* Conventions.                                                            *)
(*  - An event is a function from field names to values, like the Python   *)
(*    dict; "k in event" is  k \in DOMAIN event.                           *)
(*  - Time is in seconds.  A parseable ts is a natural number; BadTs       *)
(*    stands for a ts string datetime.fromisoformat rejects.               *)
(*  - A numeric field is an integer; BadNum stands for a string float()    *)
(*    rejects.  Floats are exact: a quotient is a reduced fraction <<n,d>>.*)
(*  - Log ids are the positions 1..Len(stream); the cursor "0" is 0.       *)
(*  - A risk score or threshold is a whole number of units of 0.00005, so  *)
(*    that rounding to 4 decimals is rounding to an even number of units.  *)
(*  - The services run on one asyncio loop each: a step of the model is    *)
(*    the code between two suspension points.                              *)
(***************************************************************************)
EXTENDS Integers, Sequences, FiniteSets, TLC

\* ------------------------------------------------------------ constants
W5m == 300
W1h == 3600
W24h == 86400
W48h == 172800
SnapshotTTL == 172800
ReadCount == 10
BadTs == -1
BadNum == -1000

\* ------------------------------------------------------------ bounds
\* Wall clock at start; timestamps of the log records are placed around it.
T0 == 200000
\* Records ever appended to the event log.
MaxLog == 3
\* Clock advances.
MaxTicks == 1
\* Events one user's window may hold before the consumer is cut off.
MaxWindow == 3
\* Feature-store writes that fail.
MaxStoreFailures == 1
\* Requests posted to ingest.
MaxPosts == 3
\* ParquetWriter.batch_size as configured (BATCH_SIZE).
BatchSize == 2

VARIABLES
    stream,         \* the event log (Redis stream): sequence of records
    last_id,        \* consume_events: cursor
    batch,          \* consume_events: ids of stream_messages still to process
    user_windows,   \* Featurizer.user_windows: user_id -> EventWindow
    store,          \* feature store: user -> hash (field -> value)
    expire_at,      \* feature store: user -> time the key expires
    now,            \* wall clock
    ticks,          \* clock advances so far
    storeFailures,  \* failed feature-store writes so far
    last,           \* the last process_event call: id, event, now, result
    raised,         \* ids whose process_event raised
    published,      \* ids whose process_event wrote a snapshot
    writes,        \* <<user, ts, derived features>> of every applied write
    buffer,         \* ParquetWriter.buffer
    blobs,          \* blobs written: [partition, rows]
    handlers,       \* ingest_event calls: handler -> [pc, event, resp]
    flush_tasks,    \* flush tasks created by handlers and not yet run
    posts,          \* requests received so far
    enqueued,       \* events passed to add_event, in order
    flushErrors,    \* how flush calls have failed so far
    ingest_buffer_size, \* the gauge ingest_buffer_size
    lifespan,       \* ingest lifespan: [flusher, final_flush, client]
    buffer_lock,    \* ParquetWriter.buffer_lock is held
    flush_call,     \* the flush call the event loop is inside of, if any
    threshold_allow,    \* inference: THRESHOLD_ALLOW
    threshold_block,    \* inference: THRESHOLD_BLOCK
    response,       \* inference: the last answer of POST /predict
    locals          \* inference: the locals of that predict call

featVars == <<last_id, batch, user_windows, store, expire_at, now,
              ticks, storeFailures, last, raised, published, writes>>

\* The state of a flush call followed statement by statement.
writeVars == <<buffer_lock, flush_call>>

ingestVars == <<buffer, blobs, handlers, flush_tasks, posts, enqueued,
                flushErrors, ingest_buffer_size, lifespan, writeVars>>

inferVars == <<threshold_allow, threshold_block, response, locals>>

vars == <<stream, featVars, ingestVars, inferVars>>

\* ------------------------------------------------------------ helpers
Has(e, k) == k \in DOMAIN e

Without(e, k) == [x \in DOMAIN e \ {k} |-> e[x]]

EmptyMap == [k \in {} |-> 0]

Abs(n) == IF n < 0 THEN 0 - n ELSE n

RECURSIVE GCD(_, _)
GCD(a, b) == IF b = 0 THEN a ELSE GCD(b, a % b)

\* n / d as a float: the reduced fraction (d > 0).
Ratio(n, d) ==
    LET g == GCD(Abs(n), d)
    IN  <<n \div g, d \div g>>

Zero == <<0, 1>>

RECURSIVE SumSeq(_)
SumSeq(s) == IF s = <<>> THEN 0 ELSE Head(s) + SumSeq(Tail(s))

RECURSIVE MaxSeq(_)
MaxSeq(s) ==
    IF s = <<>> THEN 0
    ELSE IF Len(s) = 1 THEN Head(s)
    ELSE LET m == MaxSeq(Tail(s)) IN IF Head(s) >= m THEN Head(s) ELSE m

Range(s) == {s[i] : i \in 1..Len(s)}

Min(a, b) == IF a <= b THEN a ELSE b

\* ------------------------------------------------------------ EventWindow
NewWindow == [events |-> <<>>, total_amount |-> 0, amount_count |-> 0]

\* add_event with the append left out: the aggregates take the event, the
\* sequence does not (the event is not in the window when features are
\* computed).
AddEventNotAppended(w, e) ==
    IF ~Has(e, "amount") THEN [w |-> w, raised |-> FALSE]
    ELSE IF e.amount = BadNum THEN [w |-> w, raised |-> TRUE]
    ELSE [w |-> [w EXCEPT !.total_amount = @ + e.amount,
                          !.amount_count = @ + 1],
          raised |-> FALSE]

\* EventWindow.add_event: the append happens before float() can raise.
AddEvent(w, e) ==
    LET w1 == [w EXCEPT !.events = Append(@, e)]
    IN  IF ~Has(e, "amount") THEN [w |-> w1, raised |-> FALSE]
        ELSE IF e.amount = BadNum THEN [w |-> w1, raised |-> TRUE]
        ELSE [w |-> [w1 EXCEPT !.total_amount = @ + e.amount,
                               !.amount_count = @ + 1],
              raised |-> FALSE]

\* The comparison of get_recent and cleanup_old: ts >= now - seconds.
Within(e, seconds, t) == e.ts >= t - seconds

\* get_recent measuring the horizon from the wall clock instead of the
\* now it is given.
GetRecentReadsClock(w, seconds, t) ==
    SelectSeq(w.events, LAMBDA e : Within(e, seconds, now))

\* EventWindow.get_recent
GetRecent(w, seconds, t) ==
    SelectSeq(w.events, LAMBDA e : Within(e, seconds, t))

\* EventWindow.get_user_mean_amount > 0 and its value
UserMeanPositive(w) == w.amount_count > 0 /\ w.total_amount > 0

\* EventWindow.cleanup_old: pops the prefix older than the cutoff; the
\* popleft happens before float() can raise.
RECURSIVE CleanupOld(_, _, _)
CleanupOld(w, cutoff_seconds, t) ==
    IF w.events = <<>> THEN [w |-> w, raised |-> FALSE]
    ELSE LET first == Head(w.events)
             w1 == [w EXCEPT !.events = Tail(@)]
         IN  IF Within(first, cutoff_seconds, t)
               THEN [w |-> w, raised |-> FALSE]
             ELSE IF ~Has(first, "amount")
               THEN CleanupOld(w1, cutoff_seconds, t)
             ELSE IF first.amount = BadNum
               THEN [w |-> w1, raised |-> TRUE]
             ELSE CleanupOld([w1 EXCEPT !.total_amount = @ - first.amount,
                                        !.amount_count = @ - 1],
                             cutoff_seconds, t)

\* ------------------------------------------------------------ compute_features
\* event.get(k, default)
Get(e, k, default) == IF Has(e, k) THEN e[k] ELSE default

\* float(e.get('amount', 0)) raises on a malformed amount
AmountRaises(e) == Has(e, "amount") /\ e.amount = BadNum

Amounts(evs) == [i \in 1..Len(evs) |-> Get(evs[i], "amount", 0)]

\* Changes counting the runs of equal values instead of the changes
\* between neighbours.
ChangesCountingRuns(xs) ==
    Cardinality({i \in 1..Len(xs) : i = 1 \/ xs[i] # xs[i-1]})

\* sum(1 for i in range(1, len(xs)) if xs[i] != xs[i-1])
Changes(xs) == Cardinality({i \in 2..Len(xs) : xs[i] # xs[i-1]})

FieldSeq(evs, k) == [i \in 1..Len(evs) |-> Get(evs[i], k, "")]

DerivedKeys ==
    {"txns_last_5m", "txns_last_1h", "txns_last_24h", "avg_amount_1h",
     "max_amount_24h", "unique_devices_24h", "unique_ips_24h",
     "amount_zscore", "merchant_velocity_1h", "device_churn_24h",
     "ip_changes_24h"}

\* Featurizer.compute_features: [raised, features]
ComputeFeatures(event, w, t) ==
    LET events_5m  == GetRecent(w, W5m, t)
        events_1h  == GetRecent(w, W1h, t)
        events_24h == GetRecent(w, W24h, t)
        amounts_1h  == Amounts(events_1h)
        amounts_24h == Amounts(events_24h)
        current_amount == Get(event, "amount", 0)
        current_merchant == Get(event, "merchant_id", "")
        devices_24h == FieldSeq(events_24h, "device_id")
        ips_24h     == FieldSeq(events_24h, "ip")
    IN  IF \/ \E i \in 1..Len(events_1h)  : AmountRaises(events_1h[i])
           \/ \E i \in 1..Len(events_24h) : AmountRaises(events_24h[i])
           \/ AmountRaises(event)
        THEN [raised |-> TRUE, features |-> EmptyMap]
        ELSE [raised |-> FALSE,
              features |->
                [txns_last_5m  |-> Len(events_5m),
                 txns_last_1h  |-> Len(events_1h),
                 txns_last_24h |-> Len(events_24h),
                 avg_amount_1h |->
                    IF amounts_1h = <<>> THEN Zero
                    ELSE Ratio(SumSeq(amounts_1h), Len(amounts_1h)),
                 max_amount_24h |-> MaxSeq(amounts_24h),
                 unique_devices_24h |-> Cardinality(Range(devices_24h)),
                 unique_ips_24h     |-> Cardinality(Range(ips_24h)),
                 amount_zscore |->
                    IF UserMeanPositive(w)
                    THEN Ratio(current_amount * w.amount_count - w.total_amount,
                               w.total_amount)
                    ELSE Zero,
                 merchant_velocity_1h |->
                    Cardinality({i \in 1..Len(events_1h) :
                        Get(events_1h[i], "merchant_id", "none") = current_merchant}),
                 device_churn_24h |-> Changes(devices_24h),
                 ip_changes_24h   |-> Changes(ips_24h)]]

\* ------------------------------------------------------------ process_event
\* The passthrough model features: V1 stands for each of V1..V28.
PassKeys == {"V1", "Amount_normalized"}

\* original_features: only the keys the event carries
OriginalFeatures(event) ==
    [k \in PassKeys \cap DOMAIN event |-> event[k]]

OriginalRaises(event) ==
    \E k \in PassKeys \cap DOMAIN event : event[k] = BadNum

\* {**a, **b}
Merge(a, b) ==
    [k \in DOMAIN a \cup DOMAIN b |-> IF k \in DOMAIN b THEN b[k] ELSE a[k]]

\* all_features
AllFeatures(event, derived, t) ==
    Merge(Merge(OriginalFeatures(event), derived),
          [last_event_ts |-> event.ts, last_feature_update_ts |-> t])

\* The hsets applied one by one and cut short: the passthrough fields and
\* the two timestamps are set, the derived fields are not.
PipeExecutePartial(hash, all_features) ==
    Merge(hash, [k \in DOMAIN all_features \ DerivedKeys |-> all_features[k]])

\* pipe.hset(key, k, v) for every k of all_features, executed in one
\* MULTI/EXEC: the hash keeps the fields the write does not name.
PipeExecute(hash, all_features) == Merge(hash, all_features)

StoreOutcomes == {"ok", "fail", "fail_applied"}

\* Featurizer.process_event up to the write: the windows it leaves, the
\* stage it reached ("write" when all_features is ready, else where it
\* returned or raised), the derived features and all_features.
PrepareSnapshot(event, t, windows) ==
    LET stop(stage, ws) ==
            [windows |-> ws, stage |-> stage, derived |-> EmptyMap,
             all_features |-> EmptyMap]
    IN
    IF ~Has(event, "user_id") THEN stop("no_user", windows)
    ELSE
    LET u  == event.user_id
        ws0 == IF u \in DOMAIN windows THEN windows
               ELSE [x \in DOMAIN windows \cup {u} |->
                        IF x = u THEN NewWindow ELSE windows[x]]
        put(w) == [ws0 EXCEPT ![u] = w]
    IN
    IF ~Has(event, "ts") \/ event.ts = BadTs THEN stop("ts_error", ws0)
    ELSE
    LET a == AddEvent(ws0[u], event) IN
    IF a.raised THEN stop("amount_error", put(a.w))
    ELSE
    LET c == CleanupOld(a.w, W48h, t) IN
    IF c.raised THEN stop("evict_error", put(c.w))
    ELSE
    LET f == ComputeFeatures(event, c.w, t) IN
    IF f.raised THEN stop("compute_error", put(c.w))
    ELSE IF OriginalRaises(event) THEN stop("feature_error", put(c.w))
    ELSE [windows |-> put(c.w), stage |-> "write", derived |-> f.features,
          all_features |-> AllFeatures(event, f.features, t)]

\* The end of process_event for a prepared call p: the pipeline is executed
\* (when p got that far) and the call returns or raises.  outcome is what
\* pipe.execute() does: "ok", "fail" (raises, nothing applied) or
\* "fail_applied" (the server applied the transaction and the client
\* raised, e.g. a timeout on the reply).
WriteSnapshot(p, event, t, outcome, hashes, expiry) ==
    IF p.stage # "write"
    THEN [windows |-> p.windows, hashes |-> hashes, expiry |-> expiry,
          stage |-> p.stage, raised |-> p.stage # "no_user",
          applied |-> FALSE, derived |-> EmptyMap]
    ELSE
    LET u == event.user_id
        old == IF u \in DOMAIN hashes THEN hashes[u] ELSE EmptyMap
        written == [x \in DOMAIN hashes \cup {u} |->
                      IF x = u THEN PipeExecute(old, p.all_features)
                      ELSE hashes[x]]
        due == [x \in DOMAIN expiry \cup {u} |->
                      IF x = u THEN t + SnapshotTTL ELSE expiry[x]]
    IN  [windows |-> p.windows,
         hashes  |-> IF outcome = "fail" THEN hashes ELSE written,
         expiry  |-> IF outcome = "fail" THEN expiry ELSE due,
         stage   |-> IF outcome = "ok" THEN "ok" ELSE "store_error",
         raised  |-> outcome # "ok",
         applied |-> outcome # "fail",
         derived |-> p.derived]

\* Featurizer.process_event on the state (windows, hashes, expiry): the new
\* state and how the call ended.
ProcessEvent(event, t, outcome, windows, hashes, expiry) ==
    WriteSnapshot(PrepareSnapshot(event, t, windows), event, t, outcome,
                  hashes, expiry)

\* What pipe.execute() may do in a call prepared as p.
OutcomesOf(p) ==
    IF p.stage = "write" /\ storeFailures < MaxStoreFailures
    THEN StoreOutcomes ELSE {"ok"}

\* ------------------------------------------------------------ log records
Users == {"u1", "u2"}

TsOld == T0 - W48h - W1h

Base(u) ==
    [user_id |-> u, ts |-> T0, amount |-> 50, device_id |-> "d1",
     ip |-> "i1", merchant_id |-> "m1", V1 |-> 1, Amount_normalized |-> 0]

\* What the consumer may find in the log: well-formed events of two users,
\* and records of the first user that depart from it in one field.
LogRecords ==
    {Base("u1"), Base("u2"),
     [Base("u1") EXCEPT !.ts = BadTs],
     [Base("u1") EXCEPT !.ts = TsOld],
     [Base("u1") EXCEPT !.amount = BadNum],
     [Base("u1") EXCEPT !.device_id = "d2"],
     [Base("u1") EXCEPT !.V1 = 2],
     Without(Base("u1"), "V1"),
     Without(Base("u1"), "user_id")}

\* ------------------------------------------------------------ featurizer
NoCall == [id |-> 0, event |-> EmptyMap, now |-> 0, stage |-> "none",
           raised |-> FALSE, applied |-> FALSE, derived |-> EmptyMap]

FeatInit ==
    /\ last_id = 0
    /\ batch = <<>>
    /\ user_windows = EmptyMap
    /\ store = EmptyMap
    /\ expire_at = EmptyMap
    /\ now = T0
    /\ ticks = 0
    /\ storeFailures = 0
    /\ last = NoCall
    /\ raised = {}
    /\ published = {}
    /\ writes = {}

\* XADD by a producer of the log.
AppendRecord(r) ==
    /\ Len(stream) < MaxLog
    /\ stream' = Append(stream, r)
    /\ UNCHANGED <<featVars, ingestVars, inferVars>>

\* consume_events: xread({stream_key: last_id}, count=10) returned messages.
XRead ==
    /\ batch = <<>>
    /\ last_id < Len(stream)
    /\ batch' = [i \in 1..Min(ReadCount, Len(stream) - last_id) |-> last_id + i]
    /\ UNCHANGED <<stream, last_id, user_windows, store, expire_at, now, ticks,
                   storeFailures, last, raised, published, writes, ingestVars, inferVars>>

\* The length of the window of the event's user.
WindowLen(ws, e) ==
    IF Has(e, "user_id") /\ e.user_id \in DOMAIN ws
    THEN Len(ws[e.user_id].events) ELSE 0

\* consume_events: one turn of the for loop over stream_messages.
ProcessNext ==
    /\ batch # <<>>
    /\ LET msg_id == Head(batch)
           event == stream[msg_id]
       IN  \E p \in {PrepareSnapshot(event, now, user_windows)} :
           \E outcome \in OutcomesOf(p) :
           \E r \in {WriteSnapshot(p, event, now, outcome, store, expire_at)} :
           /\ WindowLen(r.windows, event) <= MaxWindow
           /\ user_windows' = r.windows
           /\ store' = r.hashes
           /\ expire_at' = r.expiry
           /\ storeFailures' = IF r.stage = "store_error"
                               THEN storeFailures + 1 ELSE storeFailures
           /\ last_id' = IF r.raised THEN last_id ELSE msg_id
           /\ batch' = Tail(batch)
           /\ last' = [id |-> msg_id, event |-> event, now |-> now,
                       stage |-> r.stage, raised |-> r.raised,
                       applied |-> r.applied, derived |-> r.derived]
           /\ raised' = IF r.raised THEN raised \cup {msg_id} ELSE raised
           /\ published' = IF r.applied THEN published \cup {msg_id}
                           ELSE published
           /\ writes' = IF r.applied
                         THEN writes \cup
                              {<<event.user_id, event.ts, r.derived>>}
                         ELSE writes
    /\ UNCHANGED <<stream, now, ticks, ingestVars, inferVars>>

\* The wall clock moves on.
Tick(d) ==
    /\ ticks < MaxTicks
    /\ now' = now + d
    /\ ticks' = ticks + 1
    /\ UNCHANGED <<stream, last_id, batch, user_windows, store, expire_at,
                   storeFailures, last, raised, published, writes, ingestVars, inferVars>>

\* The feature store drops a key whose TTL has run out.
Expire(u) ==
    /\ u \in DOMAIN store
    /\ now >= expire_at[u]
    /\ store' = [x \in DOMAIN store \ {u} |-> store[x]]
    /\ expire_at' = [x \in DOMAIN expire_at \ {u} |-> expire_at[x]]
    /\ UNCHANGED <<stream, last_id, batch, user_windows, now, ticks,
                   storeFailures, last, raised, published, writes, ingestVars, inferVars>>

\* Long enough for every event retained so far to fall out of the 48 hours
\* and for every snapshot to expire.
TickSteps == {W48h + 1}

FeatNext ==
    \/ \E r \in LogRecords : AppendRecord(r)
    \/ XRead
    \/ ProcessNext
    \/ \E d \in TickSteps : Tick(d)
    \/ \E u \in Users : Expire(u)

\* ------------------------------------------------------------ process_event alone
\* Events of one user for process_event applied call by call: timestamps on
\* both sides of every horizon, one in the future, and a record whose
\* amount is malformed.
CallEvents ==
    {Base("u1"), [Base("u1") EXCEPT !.amount = BadNum]}
    \cup {[Base("u1") EXCEPT !.ts = x] :
            x \in {T0 - W5m, T0 - W5m - 1, T0 - W1h - 1, T0 - W24h - 1,
                   TsOld, T0 + W48h}}

\* The consumer hands the next record of the log to process_event.
Call(event) ==
    \E p \in {PrepareSnapshot(event, now, user_windows)} :
    \E outcome \in OutcomesOf(p) :
    \E r \in {WriteSnapshot(p, event, now, outcome, store, expire_at)} :
        /\ WindowLen(r.windows, event) <= MaxWindow
        /\ user_windows' = r.windows
        /\ store' = r.hashes
        /\ expire_at' = r.expiry
        /\ storeFailures' = IF r.stage = "store_error"
                            THEN storeFailures + 1 ELSE storeFailures
        /\ last' = [id |-> 0, event |-> event, now |-> now,
                    stage |-> r.stage, raised |-> r.raised,
                    applied |-> r.applied, derived |-> r.derived]
        /\ UNCHANGED <<stream, last_id, batch, now, ticks, raised, published,
                       writes, ingestVars, inferVars>>

CallNext ==
    \/ \E e \in CallEvents : Call(e)
    \/ \E d \in TickSteps : Tick(d)

\* ------------------------------------------------------------ ingest
\* TransactionEvent: every field is required (Field(...)).  V1 stands for
\* each of V1..V28.
RequiredFields ==
    {"event_id", "ts", "user_id", "amount", "currency", "country",
     "device_id", "ip", "merchant_id", "V1", "Amount_normalized"}

\* Pydantic validation of the request body: all fields present, the float
\* fields numeric, amount >= 0 (ge=0).  ts is declared str: any string
\* passes, BadTs included.
Validate(req) ==
    /\ RequiredFields \subseteq DOMAIN req
    /\ req.amount # BadNum
    /\ req.amount >= 0
    /\ req.V1 # BadNum
    /\ req.Amount_normalized # BadNum

\* event.model_dump(): the declared fields
ModelDump(req) == [k \in RequiredFields |-> req[k]]

\* stream_data: every value as text.  A value of the model stands for its
\* text, which float() and fromisoformat() read back on the consumer side.
StreamData(event_dict) == [k \in DOMAIN event_dict |-> event_dict[k]]

\* dt=YYYY-MM-DD/hour=HH of a parseable ts: <<day, hour of the day>>
PartitionOf(ts) == <<ts \div 86400, (ts % 86400) \div 3600>>

FlushOutcomes == {"ok", "mkdir_fail", "write_fail"}

RECURSIVE Reverse(_)
Reverse(s) == IF s = <<>> THEN <<>> ELSE Append(Reverse(Tail(s)), Head(s))

\* flush whose except branch puts the snapshot back one event at a time at
\* index 0: the snapshot comes back in reverse order.
FlushReinsertReversed(buf, outcome) ==
    IF buf = <<>>
    THEN [buffer |-> buf, blob |-> <<>>, returned |-> 0, error |-> "none"]
    ELSE IF buf[1].ts = BadTs
    THEN [buffer |-> <<>>, blob |-> <<>>, returned |-> 0, error |-> "partition"]
    ELSE IF outcome = "mkdir_fail"
    THEN [buffer |-> <<>>, blob |-> <<>>, returned |-> 0, error |-> "mkdir"]
    ELSE IF outcome = "write_fail"
    THEN [buffer |-> Reverse(buf), blob |-> <<>>, returned |-> 0,
          error |-> "write"]
    ELSE [buffer |-> <<>>,
          blob |-> <<[partition |-> PartitionOf(buf[1].ts), rows |-> buf]>>,
          returned |-> Len(buf), error |-> "none"]

\* flush that takes the partition from the last event of the batch.
FlushPartitionOfLast(buf, outcome) ==
    IF buf = <<>>
    THEN [buffer |-> buf, blob |-> <<>>, returned |-> 0, error |-> "none"]
    ELSE
    LET events_to_flush == buf
        cleared == <<>>
        last_event == events_to_flush[Len(events_to_flush)]
    IN  IF last_event.ts = BadTs
        THEN [buffer |-> cleared, blob |-> <<>>, returned |-> 0,
              error |-> "partition"]
        ELSE IF outcome = "mkdir_fail"
        THEN [buffer |-> cleared, blob |-> <<>>, returned |-> 0,
              error |-> "mkdir"]
        ELSE IF outcome = "write_fail"
        THEN [buffer |-> events_to_flush \o cleared, blob |-> <<>>,
              returned |-> 0, error |-> "write"]
        ELSE [buffer |-> cleared,
              blob |-> <<[partition |-> PartitionOf(last_event.ts),
                          rows |-> events_to_flush]>>,
              returned |-> Len(events_to_flush), error |-> "none"]

\* ParquetWriter.flush on a buffer: what is left in the buffer, the blob
\* written (if any), the value returned and the error raised.  No await of
\* flush suspends (the lock is never held across a suspension), so nothing
\* interleaves with it: the buffer it re-inserts into is the one it cleared.
\* outcome is what the file system does.
Flush(buf, outcome) ==
    IF buf = <<>>
    THEN [buffer |-> buf, blob |-> <<>>, returned |-> 0, error |-> "none"]
    ELSE
    LET events_to_flush == buf
        cleared == <<>>
        first_event == events_to_flush[1]
    IN  IF first_event.ts = BadTs
        THEN [buffer |-> cleared, blob |-> <<>>, returned |-> 0,
              error |-> "partition"]
        ELSE IF outcome = "mkdir_fail"
        THEN [buffer |-> cleared, blob |-> <<>>, returned |-> 0,
              error |-> "mkdir"]
        ELSE IF outcome = "write_fail"
        THEN [buffer |-> events_to_flush \o cleared, blob |-> <<>>,
              returned |-> 0, error |-> "write"]
        ELSE [buffer |-> cleared,
              blob |-> <<[partition |-> PartitionOf(first_event.ts),
                          rows |-> events_to_flush]>>,
              returned |-> Len(events_to_flush), error |-> "none"]

Handlers == {"h1", "h2"}

IngestEvent(id, t) ==
    [event_id |-> id, ts |-> t, user_id |-> "u1", amount |-> 50,
     currency |-> "USD", country |-> "US", device_id |-> "d1", ip |-> "i1",
     merchant_id |-> "m1", V1 |-> 1, Amount_normalized |-> 0]

\* Request bodies: complete events with a good or an unparseable ts, and
\* bodies the schema rejects.
Requests ==
    {IngestEvent("e1", T0), IngestEvent("e2", T0 + W1h),
     IngestEvent("e3", BadTs),
     [IngestEvent("e4", T0) EXCEPT !.amount = 0 - 5],
     [IngestEvent("e4", T0) EXCEPT !.amount = BadNum],
     Without(IngestEvent("e4", T0), "merchant_id")}

\* lifespan after startup: the background flusher runs, the Redis client
\* is open.
Started == [flusher |-> "running", final_flush |-> "none", client |-> "open"]

\* The service is between startup and shutdown.
Serving == lifespan.flusher = "running"

\* The event loop is not inside a flush call.
NoFlush == [pc |-> "idle", events_to_flush |-> <<>>, partition |-> <<>>,
            by |-> "none", result |-> <<"none">>]

\* The loop has left a flush call made by `by`, which returned a count or
\* raised: result is <<"returned", n>> or <<"raised", error>>.
Left(by, result) == [NoFlush EXCEPT !.by = by, !.result = result]

IngestInit ==
    /\ buffer = <<>>
    /\ blobs = <<>>
    /\ handlers = [h \in Handlers |->
                     [pc |-> "idle", event |-> EmptyMap, resp |-> 0]]
    /\ flush_tasks = 0
    /\ posts = 0
    /\ enqueued = <<>>
    /\ flushErrors = {}
    /\ ingest_buffer_size = 0
    /\ lifespan = Started
    /\ buffer_lock = FALSE
    /\ flush_call = NoFlush

\* ingest_event that publishes to the log without having buffered the
\* event first.
PostWithoutEnqueue(h, req) ==
    /\ Serving
    /\ handlers[h].pc = "idle"
    /\ posts < MaxPosts
    /\ posts' = posts + 1
    /\ handlers' = [handlers EXCEPT ![h] =
           IF Validate(req)
           THEN [pc |-> "xadd", event |-> ModelDump(req), resp |-> 0]
           ELSE [pc |-> "idle", event |-> req, resp |-> 422]]
    /\ UNCHANGED <<stream, featVars, buffer, enqueued, blobs, flush_tasks,
                   flushErrors, ingest_buffer_size, lifespan, writeVars,
                   inferVars>>

\* POST /events up to the first suspension: validation (422 before the
\* handler runs), model_dump, add_event; the handler then awaits xadd.
Post(h, req) ==
    /\ Serving
    /\ handlers[h].pc = "idle"
    /\ posts < MaxPosts
    /\ posts' = posts + 1
    /\ IF Validate(req)
       THEN /\ buffer' = Append(buffer, ModelDump(req))
            /\ enqueued' = Append(enqueued, ModelDump(req))
            /\ handlers' = [handlers EXCEPT ![h] =
                   [pc |-> "xadd", event |-> ModelDump(req), resp |-> 0]]
       ELSE /\ handlers' = [handlers EXCEPT ![h] =
                   [pc |-> "idle", event |-> req, resp |-> 422]]
            /\ UNCHANGED <<buffer, enqueued>>
    /\ UNCHANGED <<stream, featVars, blobs, flush_tasks, flushErrors,
                   ingest_buffer_size, lifespan, writeVars,
                   inferVars>>

\* ingest_event after xadd returned: the size check, the flush task, 200.
XAddOk(h) ==
    /\ handlers[h].pc = "xadd"
    /\ stream' = Append(stream, StreamData(handlers[h].event))
    /\ LET buffer_size == Len(buffer)
       IN  /\ ingest_buffer_size' = buffer_size
           /\ flush_tasks' = IF buffer_size >= BatchSize
                              THEN flush_tasks + 1 ELSE flush_tasks
    /\ handlers' = [handlers EXCEPT ![h].pc = "idle", ![h].resp = 200]
    /\ UNCHANGED <<featVars, buffer, blobs, posts, enqueued, flushErrors,
                   lifespan, writeVars,
                   inferVars>>

RECURSIVE RemoveFirst(_, _)
RemoveFirst(s, x) ==
    IF s = <<>> THEN <<>>
    ELSE IF Head(s) = x THEN Tail(s)
    ELSE <<Head(s)>> \o RemoveFirst(Tail(s), x)

\* ingest_event whose except branch takes the event back out of the buffer
\* before answering 500.
XAddFailRollback(h) ==
    /\ handlers[h].pc = "xadd"
    /\ handlers' = [handlers EXCEPT ![h].pc = "idle", ![h].resp = 500]
    /\ buffer' = RemoveFirst(buffer, handlers[h].event)
    /\ UNCHANGED <<stream, featVars, blobs, flush_tasks, posts,
                   enqueued, flushErrors, ingest_buffer_size, lifespan,
                   writeVars,
                   inferVars>>

\* ingest_event after xadd raised: HTTPException(500).
XAddFail(h) ==
    /\ handlers[h].pc = "xadd"
    /\ handlers' = [handlers EXCEPT ![h].pc = "idle", ![h].resp = 500]
    /\ UNCHANGED <<stream, featVars, buffer, blobs, flush_tasks, posts,
                   enqueued, flushErrors, ingest_buffer_size, lifespan,
                   writeVars,
                   inferVars>>

DoFlush(outcome) ==
    LET f == Flush(buffer, outcome)
    IN  /\ (outcome # "ok") =>
              /\ buffer # <<>>
              /\ buffer[1].ts # BadTs
        /\ buffer' = f.buffer
        /\ blobs' = blobs \o f.blob
        /\ flushErrors' = IF f.error = "none" THEN flushErrors
                          ELSE flushErrors \cup {f.error}

\* A task made by asyncio.create_task(parquet_writer.flush()) runs; what
\* it raises is dropped with the task.
RunFlushTask(outcome) ==
    /\ Serving
    /\ flush_tasks > 0
    /\ flush_tasks' = flush_tasks - 1
    /\ DoFlush(outcome)
    /\ UNCHANGED <<stream, featVars, handlers, posts, enqueued,
                   ingest_buffer_size, lifespan, writeVars,
                   inferVars>>

\* start_background_flusher after a sleep: flushes when the buffer is not
\* empty and logs what flush raises.
BackgroundFlush(outcome) ==
    /\ Serving
    /\ Len(buffer) > 0
    /\ DoFlush(outcome)
    /\ UNCHANGED <<stream, featVars, handlers, flush_tasks, posts, enqueued,
                   ingest_buffer_size, lifespan, writeVars,
                   inferVars>>

\* lifespan after the yield: the server has stopped taking requests and
\* the handlers have returned; the background flusher is cancelled, the
\* final flush runs, and the Redis client is closed when the flush returned
\* (await parquet_writer.flush() is not inside a try).
Shutdown(outcome) ==
    /\ Serving
    /\ \A h \in Handlers : handlers[h].pc = "idle"
    /\ flush_tasks = 0
    /\ DoFlush(outcome)
    /\ LET flush_raised == Flush(buffer, outcome).error # "none"
       IN  lifespan' = [flusher |-> "cancelled",
                        final_flush |-> IF flush_raised THEN "raised"
                                        ELSE "done",
                        client |-> IF flush_raised THEN "open" ELSE "closed"]
    /\ UNCHANGED <<stream, featVars, handlers, flush_tasks, posts, enqueued,
                   ingest_buffer_size, writeVars,
                   inferVars>>

IngestNext ==
    \/ \E h \in Handlers, req \in Requests : Post(h, req)
    \/ \E h \in Handlers : XAddOk(h)
    \/ \E h \in Handlers : XAddFail(h)
    \/ \E o \in FlushOutcomes : RunFlushTask(o)
    \/ \E o \in FlushOutcomes : BackgroundFlush(o)
    \/ \E o \in FlushOutcomes : Shutdown(o)

\* The ingest service while it serves, without the shutdown.
ServingNext ==
    \/ \E h \in Handlers, req \in Requests : Post(h, req)
    \/ \E h \in Handlers : XAddOk(h)
    \/ \E h \in Handlers : XAddFail(h)
    \/ \E o \in FlushOutcomes : RunFlushTask(o)
    \/ \E o \in FlushOutcomes : BackgroundFlush(o)

\* The ingest service with flush_interval too long for the background
\* flusher to fire: flushes are size-triggered only.
SizeFlushNext ==
    \/ \E h \in Handlers, req \in Requests : Post(h, req)
    \/ \E h \in Handlers : XAddOk(h)
    \/ \E h \in Handlers : XAddFail(h)
    \/ \E o \in FlushOutcomes : RunFlushTask(o)

\* ------------------------------------------------------------ flush, statement by statement
\* flush has no await that suspends (the lock is free whenever flush asks
\* for it, pq.write_table is a synchronous call), so the event loop runs
\* one flush call from its first statement to its return or raise before
\* it runs anything else of the service.  The steps below follow one call:
\* no handler step is taken between them.
LoopIdle == flush_call.pc = "idle"

FlushCallers == {"task", "background"}

\* flush is entered, by a task of create_task or by the background
\* flusher (which calls it when the buffer is not empty), and takes
\* buffer_lock.
FlushEnter(by) ==
    /\ Serving
    /\ LoopIdle
    /\ ~buffer_lock
    /\ IF by = "task"
       THEN flush_tasks > 0 /\ flush_tasks' = flush_tasks - 1
       ELSE Len(buffer) > 0 /\ flush_tasks' = flush_tasks
    /\ buffer_lock' = TRUE
    /\ flush_call' = [NoFlush EXCEPT !.pc = "locked", !.by = by]
    /\ UNCHANGED <<stream, featVars, buffer, blobs, handlers, posts,
                   enqueued, flushErrors, ingest_buffer_size, lifespan,
                   inferVars>>

\* flush under the lock: return 0 on an empty buffer, else copy and clear;
\* the lock is released on leaving the with block.
FlushSnapshot ==
    /\ flush_call.pc = "locked"
    /\ buffer_lock' = FALSE
    /\ IF buffer = <<>>
       THEN /\ flush_call' = Left(flush_call.by, <<"returned", 0>>)
            /\ buffer' = buffer
       ELSE /\ flush_call' = [flush_call EXCEPT !.pc = "partition",
                                               !.events_to_flush = buffer]
            /\ buffer' = <<>>
    /\ UNCHANGED <<stream, featVars, blobs, handlers, flush_tasks, posts,
                   enqueued, flushErrors, ingest_buffer_size, lifespan,
                   inferVars>>

PartitionOutcomes == {"ok", "mkdir_fail"}

\* flush: the partition from the ts of the first event, then mkdir; both
\* outside the try block, so what they raise leaves flush.
FlushPartition(outcome) ==
    /\ flush_call.pc = "partition"
    /\ LET first_event == flush_call.events_to_flush[1]
           error == IF first_event.ts = BadTs THEN "partition"
                    ELSE IF outcome = "mkdir_fail" THEN "mkdir"
                    ELSE "none"
       IN  /\ (outcome # "ok") => first_event.ts # BadTs
           /\ IF error = "none"
              THEN /\ flush_call' =
                         [flush_call EXCEPT
                             !.pc = "writing",
                             !.partition = PartitionOf(first_event.ts)]
                   /\ flushErrors' = flushErrors
              ELSE /\ flush_call' = Left(flush_call.by, <<"raised", error>>)
                   /\ flushErrors' = flushErrors \cup {error}
    /\ UNCHANGED <<stream, featVars, buffer, blobs, handlers, flush_tasks,
                   posts, enqueued, ingest_buffer_size, lifespan,
                   buffer_lock, inferVars>>

WriteOutcomes == {"ok", "write_fail"}

\* flush whose return value is 0 after it wrote the blob.
FlushWriteReturnsZero(outcome) ==
    /\ flush_call.pc = "writing"
    /\ ~buffer_lock
    /\ IF outcome = "ok"
       THEN /\ blobs' = Append(blobs,
                               [partition |-> flush_call.partition,
                                rows |-> flush_call.events_to_flush])
            /\ flush_call' = Left(flush_call.by, <<"returned", 0>>)
            /\ UNCHANGED <<buffer, flushErrors>>
       ELSE /\ buffer' = flush_call.events_to_flush \o buffer
            /\ flushErrors' = flushErrors \cup {"write"}
            /\ blobs' = blobs
            /\ flush_call' = Left(flush_call.by, <<"raised", "write">>)
    /\ UNCHANGED <<stream, featVars, handlers, flush_tasks, posts,
                   enqueued, ingest_buffer_size, lifespan, buffer_lock,
                   inferVars>>

\* flush: the try block.  pq.write_table returns and flush returns
\* len(events_to_flush), or it raises and the except branch puts the
\* snapshot back in front of the buffer (taking and releasing the lock) and
\* re-raises.
FlushWrite(outcome) ==
    /\ flush_call.pc = "writing"
    /\ ~buffer_lock
    /\ IF outcome = "ok"
       THEN /\ blobs' = Append(blobs,
                               [partition |-> flush_call.partition,
                                rows |-> flush_call.events_to_flush])
            /\ flush_call' =
                  Left(flush_call.by,
                       <<"returned", Len(flush_call.events_to_flush)>>)
            /\ UNCHANGED <<buffer, flushErrors>>
       ELSE /\ buffer' = flush_call.events_to_flush \o buffer
            /\ flushErrors' = flushErrors \cup {"write"}
            /\ blobs' = blobs
            /\ flush_call' = Left(flush_call.by, <<"raised", "write">>)
    /\ UNCHANGED <<stream, featVars, handlers, flush_tasks, posts,
                   enqueued, ingest_buffer_size, lifespan, buffer_lock,
                   inferVars>>

\* A handler runs up to its await of xadd: the loop must be free to run it
\* and add_event must get the lock.
HandlerEnqueues(h, req) ==
    /\ LoopIdle
    /\ ~buffer_lock
    /\ Post(h, req)

\* The ingest service with each flush call followed statement by statement.
WriteNext ==
    \/ \E h \in Handlers, req \in Requests : HandlerEnqueues(h, req)
    \/ \E h \in Handlers : LoopIdle /\ XAddOk(h)
    \/ \E h \in Handlers : LoopIdle /\ XAddFail(h)
    \/ \E by \in FlushCallers : FlushEnter(by)
    \/ FlushSnapshot
    \/ \E o \in PartitionOutcomes : FlushPartition(o)
    \/ \E o \in WriteOutcomes : FlushWrite(o)

\* ------------------------------------------------------------ inference
\* threshold_allow = 0.3 and threshold_block = 0.7, in units of 0.00005.
DefaultAllow == 6000
DefaultBlock == 14000

NoResponse == [status |-> 0]

NoLocals ==
    [user_id |-> "none", features |-> EmptyMap, feature_vector |-> <<>>,
     risk_score |-> 0, raised |-> "none"]

\* Inference after startup with the default thresholds.
InferInit ==
    /\ threshold_allow = DefaultAllow
    /\ threshold_block = DefaultBlock
    /\ response = NoResponse
    /\ locals = NoLocals

\* f"V{i}"
VName(i) == "V" \o ToString(i)

\* get_default_features
DefaultFeatures ==
    [k \in {VName(i) : i \in 1..28} \cup {"Amount_normalized"} |-> 0]

\* build_feature_vector: feature_order
FeatureOrder ==
    [i \in 1..29 |-> IF i <= 28 THEN VName(i) ELSE "Amount_normalized"]

\* build_feature_vector: float(user_features.get(name, 0.0)), 0.0 when the
\* conversion fails.
BuildFeatureVector(user_features) ==
    [i \in 1..Len(FeatureOrder) |->
        LET feature_name == FeatureOrder[i]
        IN  IF feature_name \notin DOMAIN user_features THEN Zero
            ELSE IF user_features[feature_name] = BadNum THEN Zero
            ELSE <<user_features[feature_name], 1>>]

\* The snapshot fields the featurizer writes as quotients.
RatioKeys == {"avg_amount_1h", "amount_zscore"}

\* generate_reasons.get_float: the float of the field, 0.0 when the field
\* is missing or does not parse.
GetFloat(user_features, key) ==
    IF key \notin DOMAIN user_features THEN Zero
    ELSE IF key \in RatioKeys THEN user_features[key]
    ELSE IF user_features[key] = BadNum THEN Zero
    ELSE <<user_features[key], 1>>

\* r > k for a float r and an integer k
Gt(r, k) == r[1] > k * r[2]

\* reasons.append(code) under its condition
Opt(cond, code) == IF cond THEN <<code>> ELSE <<>>

\* generate_reasons: priority_order
PriorityOrder ==
    <<"high_velocity_5m", "unusual_amount", "high_device_churn",
      "frequent_ip_changes", "high_merchant_velocity", "high_velocity_1h">>

\* priority_order.index(r) if r in priority_order else len(priority_order)
PriorityIndex(r) ==
    IF r \in Range(PriorityOrder)
    THEN (CHOOSE i \in 1..Len(PriorityOrder) :
             /\ PriorityOrder[i] = r
             /\ \A j \in 1..(i - 1) : PriorityOrder[j] # r) - 1
    ELSE Len(PriorityOrder)

\* sorted(reasons, key=...) is stable: x goes behind the elements whose key
\* is not larger.
RECURSIVE InsertByPriority(_, _)
InsertByPriority(s, x) ==
    IF s = <<>> THEN <<x>>
    ELSE IF PriorityIndex(Head(s)) <= PriorityIndex(x)
         THEN <<Head(s)>> \o InsertByPriority(Tail(s), x)
         ELSE <<x>> \o s

RECURSIVE SortedByPriority(_)
SortedByPriority(reasons) ==
    IF reasons = <<>> THEN <<>>
    ELSE InsertByPriority(SortedByPriority(SubSeq(reasons, 1, Len(reasons) - 1)),
                          reasons[Len(reasons)])

\* The reasons in the order generate_reasons appends them.
AppendedReasons(user_features) ==
    LET txns_5m == GetFloat(user_features, "txns_last_5m")
        txns_1h == GetFloat(user_features, "txns_last_1h")
        avg_amount_1h == GetFloat(user_features, "avg_amount_1h")
        amount_zscore == GetFloat(user_features, "amount_zscore")
        device_churn == GetFloat(user_features, "device_churn_24h")
        ip_changes == GetFloat(user_features, "ip_changes_24h")
        merchant_velocity == GetFloat(user_features, "merchant_velocity_1h")
    IN  Opt(Gt(txns_5m, 5), "high_velocity_5m")
        \o Opt(Gt(txns_1h, 20), "high_velocity_1h")
        \o Opt(Gt(avg_amount_1h, 0) /\ Gt(amount_zscore, 3), "unusual_amount")
        \o Opt(Gt(device_churn, 2), "high_device_churn")
        \o Opt(Gt(ip_changes, 3), "frequent_ip_changes")
        \o Opt(Gt(merchant_velocity, 5), "high_merchant_velocity")

\* sorted_reasons[:3] if sorted_reasons else ['no_significant_indicators']
TopReasons(sorted_reasons) ==
    IF sorted_reasons = <<>> THEN <<"no_significant_indicators">>
    ELSE SubSeq(sorted_reasons, 1, Min(3, Len(sorted_reasons)))

\* generate_reasons that returns the reasons in the order it appended them.
GenerateReasonsUnsorted(user_features, risk_score) ==
    TopReasons(AppendedReasons(user_features))

\* generate_reasons (risk_score is not used)
GenerateReasons(user_features, risk_score) ==
    TopReasons(SortedByPriority(AppendedReasons(user_features)))

\* The decision logic with the second comparison made non-strict.
DecideBlockAbove(risk_score, allow, block) ==
    IF risk_score < allow THEN "allow"
    ELSE IF risk_score <= block THEN "step_up"
    ELSE "block"

\* predict: the decision logic
Decide(risk_score, allow, block) ==
    IF risk_score < allow THEN "allow"
    ELSE IF risk_score < block THEN "step_up"
    ELSE "block"

\* round(risk_score, 4): to the nearest even number of units, a tie going
\* to the even fourth decimal.
Round4(risk_score) ==
    IF risk_score % 2 = 0 THEN risk_score
    ELSE IF ((risk_score + 1) \div 2) % 2 = 0 THEN risk_score + 1
    ELSE risk_score - 1

\* hgetall that still returns the hash of a key whose TTL has run out.
HGetAllStale(u) ==
    IF u \in DOMAIN store THEN store[u] ELSE EmptyMap

\* redis_client.hgetall(key): the hash, empty when the key was never
\* written or has expired.
HGetAll(u) ==
    IF u \in DOMAIN store /\ now < expire_at[u] THEN store[u] ELSE EmptyMap

\* What the model may return for a vector: scores at and next to each
\* threshold, and the ends of [0, 1].
Scores ==
    {0, DefaultAllow - 1, DefaultAllow, DefaultAllow + 1,
     DefaultBlock - 1, DefaultBlock, DefaultBlock + 1, DefaultAllow + DefaultBlock}

PredictStages == {"hgetall", "model"}

\* POST /predict answered 200: hgetall, the defaults for a missing key,
\* build_feature_vector, the model's score, the decision, the reasons.
Predict(u, model_output) ==
    LET features_read == HGetAll(u)
        found == DOMAIN features_read # {}
        features == IF found THEN features_read ELSE DefaultFeatures
        reasons == IF found THEN <<>> ELSE <<"missing_features">>
        feature_vector == BuildFeatureVector(features)
        risk_score == model_output
        decision == Decide(risk_score, threshold_allow, threshold_block)
    IN  /\ response' =
              [status |-> 200, user_id |-> u,
               risk_score |-> Round4(risk_score), decision |-> decision,
               reasons |-> IF reasons = <<>>
                           THEN GenerateReasons(features, risk_score)
                           ELSE reasons]
        /\ locals' = [user_id |-> u, features |-> features_read,
                      feature_vector |-> feature_vector,
                      risk_score |-> risk_score, raised |-> "none"]
        /\ UNCHANGED <<stream, featVars, ingestVars, threshold_allow,
                       threshold_block>>

\* POST /predict answered 500: hgetall or the model raised.
PredictFail(u, stage) ==
    LET features_read == IF stage = "hgetall" THEN EmptyMap ELSE HGetAll(u)
        features == IF DOMAIN features_read # {} THEN features_read
                    ELSE DefaultFeatures
    IN  /\ response' = [status |-> 500]
        /\ locals' = [user_id |-> u, features |-> features_read,
                      feature_vector |->
                          IF stage = "hgetall" THEN <<>>
                          ELSE BuildFeatureVector(features),
                      risk_score |-> 0, raised |-> stage]
        /\ UNCHANGED <<stream, featVars, ingestVars, threshold_allow,
                       threshold_block>>

\* The pass-through fields of a snapshot.
PassFields == [V1 |-> 1, Amount_normalized |-> 0]

\* Snapshots the feature store may hold for a user: every field a reason
\* reads at its threshold and just above it, a snapshot without derived
\* fields, and fields that do not parse.
Snapshots ==
    {Merge(PassFields,
           [txns_last_5m |-> a, txns_last_1h |-> b, avg_amount_1h |-> c,
            amount_zscore |-> d, device_churn_24h |-> e,
            ip_changes_24h |-> f, merchant_velocity_1h |-> g]) :
        a \in {5, 6}, b \in {20, 21}, c \in {Zero, <<50, 1>>},
        d \in {<<3, 1>>, <<7, 2>>}, e \in {2, 3}, f \in {3, 4},
        g \in {5, 6}}
    \cup {PassFields,
          Merge(PassFields, [txns_last_5m |-> BadNum, txns_last_1h |-> 21]),
          [V1 |-> BadNum, Amount_normalized |-> 2, txns_last_5m |-> 6]}

\* THRESHOLD_ALLOW and THRESHOLD_BLOCK as the environment may set them.
Thresholds == {DefaultAllow, DefaultBlock}

\* Inference started with some pair of thresholds, the feature store
\* holding a snapshot of the first user or none.
InferConfigured ==
    /\ stream = <<>>
    /\ IngestInit
    /\ last_id = 0
    /\ batch = <<>>
    /\ user_windows = EmptyMap
    /\ \/ store = EmptyMap /\ expire_at = EmptyMap
       \/ \E s \in Snapshots :
             /\ store = [u \in {"u1"} |-> s]
             /\ expire_at = [u \in {"u1"} |-> T0 + SnapshotTTL]
    /\ now = T0
    /\ ticks = 0
    /\ storeFailures = 0
    /\ last = NoCall
    /\ raised = {}
    /\ published = {}
    /\ writes = {}
    /\ threshold_allow \in Thresholds
    /\ threshold_block \in Thresholds
    /\ response = NoResponse
    /\ locals = NoLocals

InferNext ==
    \/ \E u \in Users, model_output \in Scores : Predict(u, model_output)
    \/ \E u \in Users, stage \in PredictStages : PredictFail(u, stage)
    \/ \E d \in TickSteps : Tick(d)
    \/ \E u \in Users : Expire(u)

\* ------------------------------------------------------------ specifications
Init == stream = <<>> /\ FeatInit /\ IngestInit /\ InferInit

Next == FeatNext \/ IngestNext \/ CallNext \/ InferNext

Spec == Init /\ [][Next]_vars

SpecFeat == Init /\ [][FeatNext]_vars

SpecIngest == Init /\ [][IngestNext]_vars

SpecCall == Init /\ [][CallNext]_vars

SpecSizeFlush == Init /\ [][SizeFlushNext]_vars

SpecInfer == InferConfigured /\ [][InferNext]_vars

SpecWrite == Init /\ [][WriteNext]_vars

\* The background flusher wakes every flush_interval for as long as the
\* service runs and blob writes eventually succeed: a flush by the
\* background flusher in which the file system does not fail cannot stay
\* possible forever without happening.
SpecFlushFair ==
    Init /\ [][ServingNext]_vars /\ WF_vars(BackgroundFlush("ok"))


\* ------------------------------------------------------------ claims
Count(x, s) == Cardinality({i \in 1..Len(s) : s[i] = x})

RECURSIVE Rows(_)
Rows(bs) == IF bs = <<>> THEN <<>> ELSE Head(bs).rows \o Rows(Tail(bs))

\* The events in blobs plus the events in the buffer are the events
\* enqueued, as multisets.
Conserved ==
    \A e \in Range(enqueued) \cup Range(buffer) \cup Range(Rows(blobs)) :
        Count(e, enqueued) = Count(e, buffer) + Count(e, Rows(blobs))

\* C1: buffer conservation.  As long as no blob write (and no directory
\* creation) has failed, the multiset of events written to blobs plus the
\* multiset in the buffer equals the multiset enqueued.
C1_BufferConservation ==
    (flushErrors \cap {"write", "mkdir"} = {}) => Conserved

\* Conservation does hold while no flush has raised outside its try block,
\* blob-write failures included (the snapshot is re-inserted).
ConservedUnlessFlushRaisedEarly ==
    (flushErrors \subseteq {"write"}) => Conserved

\* C2: once the for loop over a batch is over, the cursor is past every
\* record whose processing raised, so the next read does not return it.
C2_CursorPastRaised ==
    (batch = <<>>) => \A i \in raised : i <= last_id

\* A record process_event can handle on its own: user, parseable ts,
\* numeric fields.
Processable(e) ==
    /\ Has(e, "user_id")
    /\ Has(e, "ts")
    /\ e.ts # BadTs
    /\ ~AmountRaises(e)
    /\ ~OriginalRaises(e)

\* C3: a bad event does not stall the pipeline.  Stated on finite runs:
\* once the cursor is past a processable record that follows a record whose
\* processing raised, that record has produced a snapshot (no feature-store
\* write having failed).  A record the cursor has passed is never read again.
C3_LaterRecordsPublished ==
    (storeFailures = 0) =>
        \A i \in 1..last_id :
            (Processable(stream[i]) /\ \E j \in raised : j < i)
                => i \in published

NumericAmounts(evs) ==
    Amounts(SelectSeq(evs, LAMBDA e : Has(e, "amount") /\ e.amount # BadNum))

\* C4: window-aggregate consistency.  In every window, total_amount is the
\* sum of the amounts of the retained events and amount_count is their
\* number.
C4_WindowAggregates ==
    \A u \in DOMAIN user_windows :
        /\ user_windows[u].amount_count = Len(user_windows[u].events)
        /\ user_windows[u].total_amount
              = SumSeq(NumericAmounts(user_windows[u].events))

\* process_event got past add_event and cleanup_old.
AfterCleanup ==
    last.stage \in {"ok", "store_error", "compute_error", "feature_error"}

LastWindow == user_windows[last.event.user_id]

\* C5: window bound.  After an insertion (add_event then cleanup_old),
\* every event retained in the user's window has ts >= now - 48h.
C5_WindowBound ==
    AfterCleanup =>
        \A i \in 1..Len(LastWindow.events) :
            LastWindow.events[i].ts >= last.now - W48h

\* process_event computed the features of the last call.
FeaturesComputed == last.stage \in {"ok", "store_error"}

LastRecent24h == GetRecent(LastWindow, W24h, last.now)

\* C6 as claimed: whatever the ts of the event, it is counted in the three
\* transaction counts and is the last element of the 24h sequence.
C6_EventAlwaysCounted ==
    FeaturesComputed =>
        /\ last.derived.txns_last_5m >= 1
        /\ last.derived.txns_last_1h >= 1
        /\ last.derived.txns_last_24h >= 1
        /\ LastRecent24h # <<>>
        /\ LastRecent24h[Len(LastRecent24h)] = last.event

\* C6 as amended: the event processed is counted in every horizon its ts
\* falls in (ts >= now - horizon), and when its ts is within 24h it is the
\* last element of the sequence the churn features are computed from.
C6_EventCountedWithinHorizon ==
    FeaturesComputed =>
        /\ (last.event.ts >= last.now - W5m) => last.derived.txns_last_5m >= 1
        /\ (last.event.ts >= last.now - W1h) => last.derived.txns_last_1h >= 1
        /\ (last.event.ts >= last.now - W24h) =>
              /\ last.derived.txns_last_24h >= 1
              /\ LastRecent24h # <<>>
              /\ LastRecent24h[Len(LastRecent24h)] = last.event

\* An event older than 5 minutes and within the 24 hours was processed into
\* a window that already held an event: it is left out of txns_last_5m and
\* is the last of the 24h sequence.
C6_Witness ==
    /\ FeaturesComputed
    /\ last.event.ts < last.now - W5m
    /\ last.event.ts >= last.now - W24h
    /\ Len(LastRecent24h) >= 2
    /\ last.derived.txns_last_5m < last.derived.txns_last_24h

DerivedOf(hash) == [k \in DerivedKeys |-> hash[k]]

\* C7: snapshot atomicity.  Whatever hgetall returns for a user, if it
\* holds last_event_ts = T then it holds all 11 derived fields, with the
\* values one write computed for an event of that user with ts = T.
C7_SnapshotAtomic ==
    \A u \in DOMAIN store :
        Has(store[u], "last_event_ts") =>
            /\ DerivedKeys \subseteq DOMAIN store[u]
            /\ <<u, store[u].last_event_ts, DerivedOf(store[u])>> \in writes

\* A user's snapshot has been written more than once, with different
\* derived values.
C7_Witness ==
    \E u \in DOMAIN store :
        /\ Has(store[u], "last_event_ts")
        /\ Cardinality({w \in writes : w[1] = u}) >= 2

\* C8: the snapshot write is an overwrite.  After process_event wrote the
\* snapshot, the hash of the user holds exactly the fields of that write.
C8_SnapshotOverwritten ==
    (last.applied /\ last.event.user_id \in DOMAIN store) =>
        store[last.event.user_id]
            = AllFeatures(last.event, last.derived, last.now)

\* C9: idempotence.  When the record of the last call, whose snapshot was
\* published, is delivered again at the same now and its snapshot is
\* published, the feature store is left as it was.
C9_RedeliveryIdempotent ==
    [][ ( /\ batch # <<>>
          /\ batch' = Tail(batch)
          /\ Head(batch) = last.id
          /\ last.applied
          /\ last.now = now
          /\ last'.applied )
        => store' = store ]_vars

\* What the spec asks of a validated event.
WellFormed(e) ==
    /\ RequiredFields \subseteq DOMAIN e
    /\ e.amount # BadNum
    /\ e.amount >= 0
    /\ e.ts # BadTs

\* C10: every event added to the buffer or appended to the log has all
\* required fields, amount >= 0 and a parseable ts, and a request is
\* answered 422 exactly when it fails one of these.
C10_AcceptedIsWellFormed ==
    /\ \A i \in 1..Len(enqueued) : WellFormed(enqueued[i])
    /\ \A i \in 1..Len(stream) : WellFormed(stream[i])
    /\ \A h \in Handlers :
          (handlers[h].resp # 0) =>
              (handlers[h].resp = 422 <=> ~WellFormed(handlers[h].event))

\* What validation does enforce: presence of the fields and amount >= 0.
FieldsAndAmount(e) ==
    /\ RequiredFields \subseteq DOMAIN e
    /\ e.amount # BadNum
    /\ e.amount >= 0

\* Every event enqueued or appended has the fields and amount >= 0, and a
\* request is answered 422 exactly when it lacks one of these.
AcceptedHasFieldsAndAmount ==
    /\ \A e \in Range(enqueued) \cup Range(stream) : FieldsAndAmount(e)
    /\ \A h \in Handlers :
          (handlers[h].resp # 0) =>
              (handlers[h].resp = 422 <=> ~FieldsAndAmount(handlers[h].event))

IsSuffix(s, t) ==
    /\ Len(s) <= Len(t)
    /\ s = SubSeq(t, Len(t) - Len(s) + 1, Len(t))

\* C11: a failed blob write puts the snapshot back at the head of the
\* buffer in its enqueue order, ahead of what was enqueued since: the buffer
\* is always the tail end of the enqueue sequence, and while no flush has
\* failed otherwise than in its blob write, the rows of the blobs (in write
\* order) followed by the buffer are the enqueue sequence itself.
C11_ReinsertedInOrder ==
    /\ IsSuffix(buffer, enqueued)
    /\ (flushErrors \subseteq {"write"}) => enqueued = Rows(blobs) \o buffer

\* After a failed blob write the buffer holds two different events, behind
\* a blob already written.
C11_Witness ==
    /\ "write" \in flushErrors
    /\ blobs # <<>>
    /\ Len(buffer) >= 2
    /\ buffer[1] # buffer[2]

\* C12: every event the handlers enqueue passed validation; a handler that
\* is about to append to the log, or has answered 200, has its event among
\* those enqueued, and one that has answered 200 has it in the log; the log
\* never holds more copies of an event than were enqueued.
C12_BufferedThenLogged ==
    /\ \A i \in 1..Len(enqueued) : Validate(enqueued[i])
    /\ \A e \in Range(stream) : Count(e, stream) <= Count(e, enqueued)
    /\ \A h \in Handlers :
          /\ (handlers[h].pc = "xadd") =>
                handlers[h].event \in Range(enqueued)
          /\ (handlers[h].resp = 200) =>
                /\ handlers[h].event \in Range(enqueued)
                /\ handlers[h].event \in Range(stream)

\* One handler has answered 200 while the other, having enqueued its event,
\* still waits for the append.
C12_Witness ==
    \E h, g \in Handlers :
        /\ handlers[h].resp = 200
        /\ handlers[h].pc = "idle"
        /\ handlers[g].pc = "xadd"
        /\ Len(enqueued) > Len(stream)

\* The handler h leaves the await of xadd without the log having grown: the
\* append failed.
AppendFailed(h) ==
    /\ handlers[h].pc = "xadd"
    /\ handlers'[h].pc = "idle"
    /\ stream' = stream

\* C13 as claimed: when the append fails the caller gets a 500, the log is
\* unchanged and the event is still in the buffer.
C13_StillBufferedAfter500 ==
    [][\A h \in Handlers :
          AppendFailed(h) =>
              /\ handlers'[h].resp = 500
              /\ handlers[h].event \in Range(buffer')]_vars

\* C13 as amended: when the append fails the caller gets a 500 and the
\* handler touches neither the buffer nor the blobs; the event is in the
\* buffer or in a blob already written, as long as no flush has raised
\* before its blob write.
C13_NotTakenBack ==
    [][\A h \in Handlers :
          AppendFailed(h) =>
              /\ handlers'[h].resp = 500
              /\ buffer' = buffer
              /\ blobs' = blobs
              /\ (flushErrors \subseteq {"write"}) =>
                    handlers[h].event
                        \in Range(buffer) \cup Range(Rows(blobs))]_vars

\* A handler has answered 500 and its event is in a blob, not in the buffer.
C13_Witness ==
    \E h \in Handlers :
        /\ handlers[h].pc = "idle"
        /\ handlers[h].resp = 500
        /\ handlers[h].event \in Range(Rows(blobs))
        /\ handlers[h].event \notin Range(buffer)

\* The handler h returns: it leaves the await of xadd.
Returns(h) ==
    /\ handlers[h].pc = "xadd"
    /\ handlers'[h].pc = "idle"

\* C14: a handler whose enqueue has left at least batch_size events in the
\* buffer initiates a flush before it returns; it returns without running
\* the flush itself.
C14_FlushInitiatedWhenFull ==
    [][\A h \in Handlers :
          (Returns(h) /\ Len(buffer) >= BatchSize) =>
              /\ flush_tasks' = flush_tasks + 1
              /\ buffer' = buffer
              /\ blobs' = blobs]_vars

\* C14, the part that holds: a handler that answers 200 with at least
\* batch_size events buffered has created one flush task, none otherwise,
\* and no handler step runs the flush or waits for it.
C14_FireAndForget ==
    [][\A h \in Handlers :
          Returns(h) =>
              /\ blobs' = blobs
              /\ buffer' = buffer
              /\ flushErrors' = flushErrors
              /\ (handlers'[h].resp = 200) =>
                    flush_tasks' = IF Len(buffer) >= BatchSize
                                   THEN flush_tasks + 1
                                   ELSE flush_tasks]_vars

\* Exactly batch_size events were accepted (each enqueued, appended to the
\* log and answered 200), every handler has returned, every flush task has
\* run and no flush has raised.
BatchAccepted ==
    /\ Len(enqueued) = BatchSize
    /\ Len(stream) = BatchSize
    /\ \A h \in Handlers : handlers[h].pc = "idle"
    /\ flush_tasks = 0
    /\ flushErrors = {}

\* C15: with size-driven flushes only, once batch_size events were accepted
\* and the flush tasks have run, exactly one blob holds those events and the
\* gauge ingest_buffer_size is back to 0.
C15_OneBlobAndGaugeZero ==
    BatchAccepted =>
        /\ Len(blobs) = 1
        /\ blobs[1].rows = enqueued
        /\ ingest_buffer_size = 0

\* C15, the part that holds: in the same states exactly one blob holds the
\* accepted events and the buffer itself is empty.
C15_OneBlobBufferEmpty ==
    BatchAccepted =>
        /\ Len(blobs) = 1
        /\ blobs[1].rows = enqueued
        /\ buffer = <<>>

\* C16: once shutdown has run, the background flusher is cancelled, the
\* final flush was attempted and the Redis client is closed, whether or not
\* the final flush raised.
C16_ClientClosedAfterShutdown ==
    (~Serving) =>
        /\ lifespan.flusher = "cancelled"
        /\ lifespan.final_flush \in {"done", "raised"}
        /\ lifespan.client = "closed"

\* C16, the part that holds: shutdown cancels the flusher and attempts the
\* final flush; when that flush returns, the buffer is empty and the client
\* is closed.
C16_ClosedWhenFlushReturns ==
    (~Serving) =>
        /\ lifespan.flusher = "cancelled"
        /\ lifespan.final_flush \in {"done", "raised"}
        /\ (lifespan.final_flush = "done") =>
              /\ buffer = <<>>
              /\ lifespan.client = "closed"

Decisions == {"allow", "step_up", "block"}

\* C17 as claimed: for every score and every configured pair of thresholds
\* the decision is one of allow, step_up, block; it is allow when the score
\* is below threshold_allow and block when the score is at or above
\* threshold_block.
C17_DecisionByThresholds ==
    (response.status = 200) =>
        /\ response.decision \in Decisions
        /\ (locals.risk_score < threshold_allow) =>
              response.decision = "allow"
        /\ (locals.risk_score >= threshold_block) =>
              response.decision = "block"

\* C17 as amended: the decision is one of allow, step_up, block; it is
\* allow when the score is below threshold_allow, block when the score is
\* at or above both thresholds, step_up when it is at or above
\* threshold_allow and below threshold_block.
C17_AllowTestedFirst ==
    (response.status = 200) =>
        /\ response.decision \in Decisions
        /\ (locals.risk_score < threshold_allow) =>
              response.decision = "allow"
        /\ (/\ locals.risk_score >= threshold_allow
            /\ locals.risk_score >= threshold_block) =>
              response.decision = "block"
        /\ (/\ locals.risk_score >= threshold_allow
            /\ locals.risk_score < threshold_block) =>
              response.decision = "step_up"

\* threshold_allow is configured above threshold_block and a score between
\* the two was answered.
C17_Witness ==
    /\ response.status = 200
    /\ threshold_block < threshold_allow
    /\ threshold_block <= locals.risk_score
    /\ locals.risk_score < threshold_allow

\* The predicate of a reason code, on the snapshot f.
Matches(code, f) ==
    CASE code = "high_velocity_5m" -> Gt(GetFloat(f, "txns_last_5m"), 5)
      [] code = "high_velocity_1h" -> Gt(GetFloat(f, "txns_last_1h"), 20)
      [] code = "unusual_amount" ->
            /\ Gt(GetFloat(f, "avg_amount_1h"), 0)
            /\ Gt(GetFloat(f, "amount_zscore"), 3)
      [] code = "high_device_churn" -> Gt(GetFloat(f, "device_churn_24h"), 2)
      [] code = "frequent_ip_changes" -> Gt(GetFloat(f, "ip_changes_24h"), 3)
      [] code = "high_merchant_velocity" ->
            Gt(GetFloat(f, "merchant_velocity_1h"), 5)

\* The codes of PriorityOrder whose predicate holds on f, in priority
\* order, cut to the first three; the fallback code when there is none.
ExpectedReasons(f) ==
    LET Matching(code) == Matches(code, f)
        ranked == SelectSeq(PriorityOrder, Matching)
    IN  IF ranked = <<>> THEN <<"no_significant_indicators">>
        ELSE [i \in 1..Min(3, Len(ranked)) |-> ranked[i]]

\* The last call read a snapshot and was answered 200.
SnapshotAnswered ==
    /\ response.status = 200
    /\ DOMAIN locals.features # {}

\* C18: the reasons generated from a snapshot are the codes of the matching
\* predicates in priority order, cut to the first three, or the one code
\* no_significant_indicators when none matches; they are 1 to 3 codes, no
\* code twice.
C18_ReasonsByPriority ==
    SnapshotAnswered =>
        /\ response.reasons = ExpectedReasons(locals.features)
        /\ Len(response.reasons) \in 1..3
        /\ \A i, j \in 1..Len(response.reasons) :
              (response.reasons[i] = response.reasons[j]) => i = j

\* All six predicates match: the three codes answered are not the first
\* three appended, and three matching codes are left out.
C18_Witness ==
    /\ SnapshotAnswered
    /\ \A code \in Range(PriorityOrder) : Matches(code, locals.features)
    /\ response.reasons =
          <<"high_velocity_5m", "unusual_amount", "high_device_churn">>

\* features:user:{u} is absent: never written, or expired.
KeyAbsent(u) == u \notin DOMAIN store \/ now >= expire_at[u]

\* A predict call for u is answered in this step and neither hgetall nor
\* the model raised.
Answered(u) ==
    /\ <<response, locals>>' # <<response, locals>>
    /\ locals'.user_id = u
    /\ locals'.raised = "none"

\* C19: a predict call for a user whose key is absent is answered 200 with
\* a vector of 29 zeros, reasons exactly missing_features and the decision
\* the thresholds give for the score; a call for a user whose key holds a
\* snapshot is answered with the reasons of that snapshot, never with
\* missing_features.
C19_MissingUserDefaults ==
    [][\A u \in Users :
          Answered(u) =>
              IF KeyAbsent(u)
              THEN /\ response'.status = 200
                   /\ locals'.feature_vector = [i \in 1..29 |-> Zero]
                   /\ response'.reasons = <<"missing_features">>
                   /\ response'.decision =
                         Decide(locals'.risk_score, threshold_allow,
                                threshold_block)
              ELSE /\ response'.status = 200
                   /\ response'.reasons = ExpectedReasons(store[u])
                   /\ "missing_features" \notin Range(response'.reasons)]_vars

\* The snapshot of u1 has expired, the store has not dropped the key yet,
\* and a call for u1 was answered with missing_features.
C19_Witness ==
    /\ "u1" \in DOMAIN store
    /\ now >= expire_at["u1"]
    /\ locals.user_id = "u1"
    /\ response.status = 200
    /\ response.reasons = <<"missing_features">>
    /\ locals.feature_vector = [i \in 1..29 |-> Zero]

\* C20: a step that writes a blob writes exactly one, holding the whole
\* buffer, under the date and hour of the ts of the first buffered event,
\* whatever the other rows; a flush that empties a non-empty buffer writes
\* that blob unless it raised before the write.
C20_OneBlobUnderFirstEventPartition ==
    [][/\ (blobs' # blobs) =>
              /\ buffer # <<>>
              /\ blobs' = Append(blobs,
                                 [partition |-> PartitionOf(buffer[1].ts),
                                  rows |-> buffer])
              /\ buffer' = <<>>
       /\ (buffer # <<>> /\ buffer' = <<>>) =>
              \/ Len(blobs') = Len(blobs) + 1
              \/ flushErrors' \cap {"partition", "mkdir"} # {}]_vars

\* A blob lies under the hour of its first row and holds a second row
\* whose ts falls in another hour.
C20_Witness ==
    \E i \in 1..Len(blobs) :
        /\ Len(blobs[i].rows) >= 2
        /\ blobs[i].partition = PartitionOf(blobs[i].rows[1].ts)
        /\ blobs[i].rows[2].ts # BadTs
        /\ PartitionOf(blobs[i].rows[2].ts) # blobs[i].partition

\* The ids of the records of user u that process_event has been called on
\* and that carried it past the user check.
HandledOf(u) ==
    {i \in raised \cup published :
        Has(stream[i], "user_id") /\ stream[i].user_id = u}

\* The largest element of a non-empty set of ids.
MaxId(ids) == CHOOSE i \in ids : \A j \in ids : j <= i

\* C21, order: a record handed to process_event has a larger log id than
\* every record of the same user handled before, a record delivered again
\* right after it raised excepted.
C21_IncreasingLogOrder ==
    [][ ( /\ batch # <<>>
          /\ batch' = Tail(batch)
          /\ Has(stream[Head(batch)], "user_id") )
        => \A j \in HandledOf(stream[Head(batch)].user_id) :
              j <= Head(batch) ]_vars

\* C21, snapshot: once the loop over a batch is over, the last_event_ts of
\* a user's snapshot is the ts of the record with the largest log id among
\* the records of that user whose snapshot was written.
C21_SnapshotOfLatestRecord ==
    (batch = <<>>) =>
        \A u \in DOMAIN store :
            LET ids == {i \in published : stream[i].user_id = u}
            IN  /\ ids # {}
                /\ store[u].last_event_ts = stream[MaxId(ids)].ts

\* A blob write is in progress.
Writing == flush_call.pc = "writing"

\* A request can be taken: a handler is free and the service is serving.
RequestCanArrive ==
    /\ Serving
    /\ posts < MaxPosts
    /\ \E h \in Handlers : handlers[h].pc = "idle"

\* C22: while a blob write is in progress the buffer lock is free and a
\* request that arrives has its add_event completed without waiting for
\* the write to end.
C22_AddEventDuringWrite ==
    Writing =>
        /\ ~buffer_lock
        /\ RequestCanArrive =>
              ENABLED (\E h \in Handlers, req \in Requests :
                          HandlerEnqueues(h, req))

\* C22, the part that holds: the lock is held only while flush snapshots
\* and clears the buffer, never while the partition is derived or the blob
\* written; the snapshot being written is out of the buffer, which holds
\* only what was enqueued since.
C22_LockFreeDuringWrite ==
    /\ buffer_lock => flush_call.pc = "locked"
    /\ Writing =>
          /\ ~buffer_lock
          /\ flush_call.events_to_flush # <<>>

\* C23: the buffer never holds more than batch_size events and no blob
\* contains more than batch_size events.
C23_BoundedBatch ==
    /\ Len(buffer) <= BatchSize
    /\ \A i \in 1..Len(blobs) : Len(blobs[i].rows) <= BatchSize

\* The events the handlers may add to the buffer.
AcceptedEvents == {ModelDump(req) : req \in {r \in Requests : Validate(r)}}

Written(e) == e \in Range(Rows(blobs))

\* C24: with the background flusher scheduled fairly and blob writes that
\* eventually succeed, every event added to the buffer is eventually in a
\* blob.
C24_EventuallyWritten ==
    \A e \in AcceptedEvents : (e \in Range(enqueued)) ~> Written(e)

\* C24, the part that holds: every event added to the buffer is eventually
\* in a blob, unless a flush raises before its try block (an unparseable ts
\* at the head of the batch or a failed mkdir); a snapshot whose write
\* failed is written by a later flush.
C24_WrittenUnlessRaisedEarly ==
    \A e \in AcceptedEvents :
        (e \in Range(enqueued)) ~>
            (Written(e) \/ flushErrors \cap {"partition", "mkdir"} # {})

\* The loop leaves a flush call in this step, and the call returns.
FlushReturns ==
    /\ ~LoopIdle
    /\ flush_call'.pc = "idle"
    /\ flush_call'.result[1] = "returned"

\* C25: a flush call that returns 0 found the buffer empty and leaves
\* buffer, blobs and errors as they were; one that found the buffer empty
\* returns 0; one that returns n > 0 has written one blob of n rows; no
\* blob is ever empty.
C25_ReturnsRowsWritten ==
    [][/\ FlushReturns =>
              IF flush_call'.result[2] = 0
              THEN /\ flush_call.pc = "locked"
                   /\ buffer = <<>>
                   /\ UNCHANGED <<buffer, blobs, flushErrors, enqueued,
                                  stream, handlers>>
              ELSE /\ Len(blobs') = Len(blobs) + 1
                   /\ Len(blobs'[Len(blobs')].rows) = flush_call'.result[2]
       /\ (flush_call.pc = "locked" /\ buffer = <<>>) =>
              flush_call'.result = <<"returned", 0>>
       /\ \A i \in 1..Len(blobs') : blobs'[i].rows # <<>>]_vars

\* The size-driven flush task found the buffer empty and returned 0: the
\* background flusher had written the batch before it ran.
C25_Witness ==
    /\ flush_call.result = <<"returned", 0>>
    /\ flush_call.by = "task"
    /\ blobs # <<>>
    /\ buffer = <<>>

\* The loop leaves a flush call in this step, and the call raises.
FlushRaises ==
    /\ ~LoopIdle
    /\ flush_call'.pc = "idle"
    /\ flush_call'.result[1] = "raised"

\* C26: after a flush call that raises, whichever statement failed, every
\* event of its snapshot is in the buffer.
C26_RaisedFlushKeepsSnapshot ==
    [][FlushRaises =>
           \A i \in 1..Len(flush_call.events_to_flush) :
               \E j \in 1..Len(buffer') :
                   buffer'[j] = flush_call.events_to_flush[i]]_vars

\* C26, write failures only: a flush call that raises inside the try block
\* (building the table, writing the blob) puts its snapshot back in front
\* of the buffer.
C26_WriteFailureKeepsSnapshot ==
    [][(FlushRaises /\ flush_call'.result[2] = "write") =>
           buffer' = flush_call.events_to_flush \o buffer]_vars

\* The window process_event finds for user u: the one it has, or the empty
\* one it creates.
WindowOf(ws, u) == IF u \in DOMAIN ws THEN ws[u] ELSE NewWindow

\* This step is a turn of the consumer's loop whose process_event raised.
ProcessRaises ==
    /\ batch # <<>>
    /\ batch' = Tail(batch)
    /\ last'.raised

\* C27: a process_event call that raises leaves the user's window as it
\* was before the call and writes no snapshot field.
C27_RaisedCallLeavesState ==
    [][ProcessRaises =>
           LET u == stream[Head(batch)].user_id
           IN  /\ WindowOf(user_windows', u) = WindowOf(user_windows, u)
               /\ store' = store]_vars

\* C27, malformed timestamps only: a call that raises at fromisoformat
\* leaves the window and the store as they were.
C27_TsErrorLeavesState ==
    [][(ProcessRaises /\ last'.stage = "ts_error") =>
           LET u == stream[Head(batch)].user_id
           IN  /\ WindowOf(user_windows', u) = WindowOf(user_windows, u)
               /\ store' = store]_vars

\* The records of user u among log ids 1..n.
RecordsOf(u, n) ==
    {i \in 1..n : Has(stream[i], "user_id") /\ stream[i].user_id = u}

\* C28: within one run the window of a user never holds more events than
\* the number of that user's records consumed: no record is inserted twice.
C28_WindowWithinConsumed ==
    \A u \in DOMAIN user_windows :
        Len(user_windows[u].events) <= Cardinality(RecordsOf(u, Len(stream)))

\* C28, on a run without failures: the window of a user holds no more
\* events than that user's records in the log.
C28_WindowWithinConsumedIfNoneRaised ==
    raised = {} =>
        \A u \in DOMAIN user_windows :
            Len(user_windows[u].events)
                <= Cardinality(RecordsOf(u, Len(stream)))

\* ------------------------------------------------------------ compute_features alone
\* Where an event of ComputeEvents comes from: device, address, merchant.
Origins == {<<"d1", "i1", "m1">>, <<"d2", "i1", "m1">>, <<"d1", "i2", "m2">>}

\* Events of one user for compute_features applied to windows built by
\* add_event: timestamps on both sides of every horizon, a second device, a
\* second address and merchant, and a record whose amount is malformed.
ComputeEvents ==
    {[Base("u1") EXCEPT !.ts = x, !.device_id = o[1], !.ip = o[2],
                        !.merchant_id = o[3]] :
        x \in {T0, T0 - W5m - 1, T0 - W1h - 1, T0 - W24h - 1},
        o \in Origins}
    \cup {[Base("u1") EXCEPT !.amount = BadNum]}

\* The values of now handed to compute_features.
ComputeTimes == {T0, T0 + W5m + 1}

\* user_window.add_event(e) on the window of u1.  The record of the last
\* compute_features call is kept only while its window is.
WindowAdd(e) ==
    /\ Len(WindowOf(user_windows, "u1").events) < MaxWindow
    /\ user_windows' =
           [x \in {"u1"} |-> AddEvent(WindowOf(user_windows, "u1"), e).w]
    /\ last' = NoCall
    /\ UNCHANGED <<stream, last_id, batch, store, expire_at, now, ticks,
                   storeFailures, raised, published, writes, ingestVars,
                   inferVars>>

\* compute_features(event, user_window, t) on the window of u1: the call
\* reads the window and returns the features, or raises.
Compute(event, t) ==
    /\ "u1" \in DOMAIN user_windows
    /\ \E f \in {ComputeFeatures(event, user_windows["u1"], t)} :
           last' = [NoCall EXCEPT !.event = event, !.now = t,
                                  !.stage = IF f.raised THEN "compute_error"
                                            ELSE "computed",
                                  !.raised = f.raised,
                                  !.derived = f.features]
    /\ UNCHANGED <<stream, last_id, batch, user_windows, store, expire_at,
                   now, ticks, storeFailures, raised, published, writes,
                   ingestVars, inferVars>>

ComputeNext ==
    \/ \E e \in ComputeEvents : WindowAdd(e)
    \/ \E e \in ComputeEvents : \E t \in ComputeTimes : Compute(e, t)
    \/ \E d \in TickSteps : Tick(d)

SpecCompute == Init /\ [][ComputeNext]_vars

\* The last compute_features call returned features.
Computed == last.stage = "computed"

\* C29: the features compute_features returns are ordered: the counts grow
\* with the horizon and stay within the retained events; the merchant count
\* is within the hour's count; the distinct devices and addresses are within
\* the day's count; the changes are within the day's count less one; the
\* distinct values are within the changes plus one.
C29_FeatureOrdering ==
    Computed =>
        LET f == last.derived
            retained == Len(user_windows["u1"].events)
            most == IF f.txns_last_24h >= 1 THEN f.txns_last_24h - 1 ELSE 0
        IN  /\ f.txns_last_5m <= f.txns_last_1h
            /\ f.txns_last_1h <= f.txns_last_24h
            /\ f.txns_last_24h <= retained
            /\ f.merchant_velocity_1h <= f.txns_last_1h
            /\ f.unique_devices_24h <= f.txns_last_24h
            /\ f.unique_ips_24h <= f.txns_last_24h
            /\ f.device_churn_24h <= most
            /\ f.ip_changes_24h <= most
            /\ f.txns_last_24h > 0 =>
                   /\ f.unique_devices_24h <= f.device_churn_24h + 1
                   /\ f.unique_ips_24h <= f.ip_changes_24h + 1

\* A call on a window of three events, each horizon holding one event more
\* than the one before, where the device changed within the day.
C29_Witness ==
    /\ Computed
    /\ last.derived.txns_last_5m < last.derived.txns_last_1h
    /\ last.derived.txns_last_1h < last.derived.txns_last_24h
    /\ last.derived.txns_last_24h < Len(user_windows["u1"].events)
    /\ last.derived.device_churn_24h = 1
    /\ last.derived.unique_devices_24h = 2
    /\ last.derived.merchant_velocity_1h < last.derived.txns_last_1h

====
